---- MODULE Spec2Model ----
(***************************************************************************)
(* A model of ArchiveFreezer (src/main.py): the start-up scan for freeze   *)
(* directives, the selection of top-level target folders, and apply_tag,   *)
(* the walk that tags the files of a subtree and keeps one .frozen record  *)
(* per directory.                                                          *)
(*                                                                         *)
(* Python strings are sequences of one-character strings, so that          *)
(* startswith, len, split and replace are computed as the code computes    *)
(* them.  A Python dict of strings is a function from key strings to value *)
(* strings.  A JSON value carries its JSON type, which is what the schema  *)
(* validation looks at.                                                    *)
(***************************************************************************)
EXTENDS Integers, Sequences, FiniteSets, TLC

(***************************************************************************)
(* Bounds of the model.                                                    *)
(***************************************************************************)
\* directive markers present in the tree when the driver starts
MaxMarkers == 3
\* directories that hold a .frozen file before the first run
MaxInitRecords == 1
\* put_object_tagging calls that fail in one behaviour
MaxFails == 1
\* driver runs in one behaviour (SpecRerun only)
MaxRuns == 2

(***************************************************************************)
(* String helpers (Python str operations).                                 *)
(***************************************************************************)
StartsWith(s, p) == Len(s) >= Len(p) /\ SubSeq(s, 1, Len(p)) = p

\* s[n:]
Drop(s, n) == SubSeq(s, n + 1, Len(s))

\* the index of the first occurrence of the character c in s, 0 when absent
FirstIndex(s, c) ==
    IF \E i \in 1..Len(s) : s[i] = c
    THEN CHOOSE i \in 1..Len(s) : s[i] = c /\ \A j \in 1..(i - 1) : s[j] # c
    ELSE 0

\* s.split(c) for a one-character separator
RECURSIVE Split(_, _)
Split(s, c) ==
    LET i == FirstIndex(s, c)
    IN  IF i = 0 THEN <<s>>
        ELSE <<SubSeq(s, 1, i - 1)>> \o Split(Drop(s, i), c)

\* s.replace(old, ''): every occurrence of old is removed, left to right
RECURSIVE Remove(_, _)
Remove(s, old) ==
    IF s = <<>> THEN <<>>
    ELSE IF StartsWith(s, old) THEN Remove(Drop(s, Len(old)), old)
    ELSE <<s[1]>> \o Remove(Drop(s, 1), old)

\* os.path.sep
Sep == <<"/">>

\* os.path.join(path, file)
Join(path, file) == path \o Sep \o file

(***************************************************************************)
(* Program constants.                                                      *)
(***************************************************************************)
FREEZEFILE_PREFIX == <<".", "f", "r", "e", "e", "z", "e", ".">>

FROZENFILE == <<".", "f", "r", "o", "z", "e", "n">>

FREEZEFILE_TAGS ==
    [k \in {<<"s", "t", "o", "r", "a", "g", "e", "-", "c", "l", "a", "s", "s">>} |->
        <<"i", "n", "f", "r", "e", "q", "u", "e", "n", "t", "-",
          "a", "c", "c", "e", "s", "s">>]

EmptyDict == [k \in {} |-> <<>>]

\* JSON / Python values, tagged with their type
JStr(s) == [type |-> "string", str |-> s]
JObj(d) == [type |-> "object", obj |-> d]
JArr(a) == [type |-> "array", arr |-> a]

\* jsonschema.validate(instance=frozen, schema=CONFIG_SCHEMA) raises nothing:
\* the four required properties are there and each has the type the schema
\* gives it (the items of an array are strings by construction)
CONFIG_SCHEMA(frozen) ==
    /\ {"rule_at", "applied_tags", "affected_files", "freezefile_tags"}
          \subseteq DOMAIN frozen
    /\ frozen.rule_at.type = "object"
    /\ frozen.freezefile_tags.type = "object"
    /\ frozen.applied_tags.type = "object"
    /\ frozen.affected_files.type = "array"

BASE_CONFIG ==
    [rule_at |-> JStr(<<>>), applied_tags |-> JObj(EmptyDict),
     affected_files |-> JArr(<<>>), freezefile_tags |-> JObj(EmptyDict)]

\* the namespace root, S3_MOUNT_PATH
S3_MOUNT_PATH == <<"/", "m">>

(***************************************************************************)
(* parse_freezefile: '.freeze.k=v;k2=v2' -> {k: v, k2: v2}; a key given    *)
(* twice keeps its last value, as a dict comprehension does.               *)
(***************************************************************************)
parse_freezefile(freezefile) ==
    LET key_values == LET parts == Split(Drop(freezefile, Len(FREEZEFILE_PREFIX)), ";")
                      IN  [i \in 1..Len(parts) |-> Split(parts[i], "=")]
        keys == {key_values[i][1] : i \in 1..Len(key_values)}
        last(k) == CHOOSE i \in 1..Len(key_values) :
                      /\ key_values[i][1] = k
                      /\ \A j \in (i + 1)..Len(key_values) : key_values[j][1] # k
    IN  [k \in keys |-> key_values[last(k)][2]]

(***************************************************************************)
(* The namespace: a fixed tree below the mount path.  Paths are resolved   *)
(* absolute strings; the tree has no links, so Path.resolve changes        *)
(* nothing.                                                                *)
(*   /m/a      x  y  .k  s/  sb/  .h/                                      *)
(*   /m/a/s    z  d/                                                       *)
(*   /m/a/s/d  w                                                           *)
(*   /m/a/sb   v                                                           *)
(*   /m/a/.h   q                                                           *)
(***************************************************************************)
DirA == Join(S3_MOUNT_PATH, <<"a">>)
DirS == Join(DirA, <<"s">>)
DirD == Join(DirS, <<"d">>)
DirH == Join(DirA, <<".", "h">>)
DirB == Join(DirA, <<"s", "b">>)

Dirs == {S3_MOUNT_PATH, DirA, DirS, DirD, DirH, DirB}

\* the entries of a directory that are neither markers nor the record file
StaticEntries(d) ==
    CASE d = S3_MOUNT_PATH -> << <<"a">> >>
      [] d = DirA -> << <<"x">>, <<".", "k">>, <<"s">>, <<"y">>, <<"s", "b">>,
                        <<".", "h">> >>
      [] d = DirS -> << <<"z">>, <<"d">> >>
      [] d = DirD -> << <<"w">> >>
      [] d = DirH -> << <<"q">> >>
      [] d = DirB -> << <<"v">> >>

\* two directive markers: '.freeze.t=c' and '.freeze.t=h;u=1'
MarkerCold == FREEZEFILE_PREFIX \o <<"t", "=", "c">>
MarkerHot == FREEZEFILE_PREFIX \o <<"t", "=", "h", ";", "u", "=", "1">>
MarkerNames == {MarkerCold, MarkerHot}
MarkerOrder == <<MarkerCold, MarkerHot>>

\* where a marker may lie when the driver starts: either marker in /m/a and
\* in /m/a/s, the first one in /m/a/s/d and in /m/a/sb
MarkerPlaces ==
    {<<DirA, MarkerCold>>, <<DirA, MarkerHot>>, <<DirS, MarkerCold>>,
     <<DirS, MarkerHot>>, <<DirD, MarkerCold>>, <<DirB, MarkerCold>>}

\* the directories that may hold a record file before the first run
RecordDirs == {DirA, DirS, DirB}

\* the content of a .frozen file: a JSON object, or no file at all
NoFile == [absent |-> TRUE]

\* a record that lacks the affected-files property
CorruptRecord ==
    [rule_at |-> JObj(EmptyDict), applied_tags |-> JObj(EmptyDict),
     freezefile_tags |-> JObj(FREEZEFILE_TAGS)]

\* a record that passes the schema: its rule-at is an object
ForeignRecord ==
    [rule_at |-> JObj([k \in {<<"o">>} |-> <<"r">>]),
     applied_tags |-> JObj(parse_freezefile(MarkerCold)),
     affected_files |-> JArr(<< <<"z">> >>),
     freezefile_tags |-> JObj(FREEZEFILE_TAGS)]

VARIABLES
    markers,        \* directory -> the names of the directive markers in it
    records,        \* directory -> the content of its .frozen file
    stack,          \* the activations of apply_tag, innermost last
    dpc,            \* where the driver (__main__) is
    tgt_folders,    \* the driver's list of top-level target folders
    idx,            \* the driver's position in tgt_folders
    freezefile,     \* the driver's marker name for the current folder
    state,          \* the driver's state, as returned by apply_tag
    sent,           \* the messages handed to the telegram bot
    calls,          \* the put_object_tagging calls made, in order
    fails,          \* how many of them failed
    run,            \* the number of the driver run
    invocations,    \* history: the apply_tag calls made, in order
    results,        \* history: what each apply_tag call returned
    honored,        \* history: the markers parsed, in order
    popped,         \* history: the directories popped from a work-stack
    markers0,       \* history: the markers when the first run started
    records0        \* history: the records when the current run started

vars == <<markers, records, stack, dpc, tgt_folders, idx, freezefile, state,
          sent, calls, fails, run, invocations, results, honored, popped,
          markers0, records0>>

(***************************************************************************)
(* The file system as the code sees it.                                    *)
(***************************************************************************)
\* os.path.isdir
isdir(p) == p \in Dirs

\* Path(path).glob('.freeze.*'): the names of the markers in path
glob(path) == {f \in markers[path] : StartsWith(f, FREEZEFILE_PREFIX)}

\* os.listdir(path): the markers, the record file when there is one, and
\* the other entries, in a fixed order
listdir(path) ==
    SelectSeq(MarkerOrder, LAMBDA f : f \in markers[path])
      \o (IF records[path] = NoFile THEN <<>> ELSE <<FROZENFILE>>)
      \o StaticEntries(path)

\* Python's == between a loaded JSON value and a str / a dict
EqStr(v, s) == v.type = "string" /\ v.str = s
EqDict(v, d) == v.type = "object" /\ v.obj = d

\* file in frozen['affected-files']
InList(file, v) == \E i \in 1..Len(v.arr) : v.arr[i] = file

(***************************************************************************)
(* __main__, lines 145-152: the parents of all markers below the mount     *)
(* path, sorted by length, reduced to the folders no earlier one covers.   *)
(***************************************************************************)
\* the order in which rglob meets the directories
ScanOrder == <<S3_MOUNT_PATH, DirA, DirH, DirS, DirD, DirB>>

RECURSIVE freeze_parents(_, _)
freeze_parents(m, order) ==
    IF order = <<>> THEN <<>>
    ELSE [i \in 1..Cardinality(m[Head(order)]) |-> Head(order)]
           \o freeze_parents(m, Tail(order))

\* sorted(..., key=len): stable
InsertByLen(sorted, x) ==
    LET k == Cardinality({i \in 1..Len(sorted) : Len(sorted[i]) <= Len(x)})
    IN  SubSeq(sorted, 1, k) \o <<x>> \o SubSeq(sorted, k + 1, Len(sorted))

RECURSIVE SortedByLen(_)
SortedByLen(seq) ==
    IF seq = <<>> THEN <<>>
    ELSE InsertByLen(SortedByLen(SubSeq(seq, 1, Len(seq) - 1)), seq[Len(seq)])

\* mutant of Covered: the separator is left out of the prefix
CoveredNoSep(tgt_folder, folders) ==
    \E i \in 1..Len(folders) : StartsWith(tgt_folder, folders[i])

\* any([tgt_folder.startswith(f'{x}{os.path.sep}') for x in tgt_folders])
Covered(tgt_folder, folders) ==
    \E i \in 1..Len(folders) : StartsWith(tgt_folder, folders[i] \o Sep)

RECURSIVE SelectFolders(_, _)
SelectFolders(candidates, folders) ==
    IF candidates = <<>> THEN folders
    ELSE SelectFolders(Tail(candidates),
                       IF Covered(Head(candidates), folders) THEN folders
                       ELSE Append(folders, Head(candidates)))

tgt_folder_candidates(m) == SortedByLen(freeze_parents(m, ScanOrder))

(***************************************************************************)
(* apply_tag: one activation.                                              *)
(***************************************************************************)
NewFrame(target_path, rule_path, tags) ==
    [target_path |-> target_path, rule_path |-> rule_path, tags |-> tags,
     directories |-> <<target_path>>, processed_files |-> <<>>,
     failed_files |-> <<>>, state |-> TRUE, pc |-> "loop", path |-> <<>>,
     frozen |-> BASE_CONFIG, listing |-> <<>>, freezefile |-> <<>>]

Top == stack[Len(stack)]

\* the rule path handed to the apply_tag call of line 77
NestedRulePath(path, rule_path) == rule_path

\* mutant of NestedTags: the tags of the enclosing walk are handed on
NestedTagsOuter(parsed_tag, tags) == tags

\* the tags handed to the apply_tag call of line 77
NestedTags(parsed_tag, tags) == parsed_tag

\* mutant of RuleConflict: the rule of the record is not looked at
RuleConflictDropped(frozen, rule_path) == FALSE

\* line 94: frozen['rule-at'] != rule_path
RuleConflict(frozen, rule_path) == ~EqStr(frozen.rule_at, rule_path)

\* line 100: file.startswith('.')
\* line 100 with only the marker and record names skipped
IsHiddenOnlyOwnFiles(file) ==
    StartsWith(file, FREEZEFILE_PREFIX) \/ file = FROZENFILE

IsHidden(file) == StartsWith(file, <<".">>)

\* lines 109-115: the tags a file is classified by
using_tag(file, tags) ==
    IF StartsWith(file, FREEZEFILE_PREFIX) \/ file = FROZENFILE
    THEN FREEZEFILE_TAGS ELSE tags

old_tag(file, frozen) ==
    IF StartsWith(file, FREEZEFILE_PREFIX) \/ file = FROZENFILE
    THEN frozen.freezefile_tags ELSE frozen.applied_tags

\* line 117: the file needs no call
AlreadyTagged(file, tags, frozen) ==
    EqDict(old_tag(file, frozen), using_tag(file, tags))
      /\ InList(file, frozen.affected_files)

\* line 120
file_s3_key(file_abs_path) == Remove(file_abs_path, S3_MOUNT_PATH \o Sep)

\* mutant of SavedRecord: rule-at is not set
SavedRecordNoRule(frozen, rule_path, tags) ==
    [frozen EXCEPT !.applied_tags = JObj(tags),
                   !.freezefile_tags = JObj(FREEZEFILE_TAGS)]

\* lines 136-140 with applied-tags left as loaded
SavedRecordOldTags(frozen, rule_path, tags) ==
    [frozen EXCEPT !.rule_at = JStr(rule_path),
                   !.freezefile_tags = JObj(FREEZEFILE_TAGS)]

\* lines 136-140: what is written to the record file
SavedRecord(frozen, rule_path, tags) ==
    [frozen EXCEPT !.rule_at = JStr(rule_path),
                   !.applied_tags = JObj(tags),
                   !.freezefile_tags = JObj(FREEZEFILE_TAGS)]

\* lines 77-82 without the continue of line 82: after the nested call has
\* returned, the enclosing activation takes up the directory itself
ReturnNoContinue(res) ==
    LET rest == SubSeq(stack, 1, Len(stack) - 1)
        c == rest[Len(rest)]
    IN  /\ results' = Append(results,
              [target_path |-> Top.target_path, rule_path |-> Top.rule_path,
               tags |-> Top.tags, depth |-> Len(stack), run |-> run,
               walk |-> idx, state |-> res.state, processed |-> res.processed,
               failed |-> res.failed])
        /\ IF rest = <<>>
           THEN /\ stack' = <<>>
                /\ state' = res.state
                /\ dpc' = "remove"
                /\ UNCHANGED markers
           ELSE /\ stack' = [rest EXCEPT ![Len(rest)] =
                      [c EXCEPT !.state = c.state /\ res.state,
                                !.processed_files = @ \o res.processed,
                                !.failed_files = @ \o res.failed,
                                !.directories = Append(@, c.path),
                                !.pc = "loop", !.path = <<>>,
                                !.freezefile = <<>>]]
                /\ markers' = [markers EXCEPT ![c.path] = @ \ {c.freezefile}]
                /\ UNCHANGED <<state, dpc>>

\* a return of the innermost activation with the value res: to the driver
\* (line 157), or to the activation that called it (lines 77-82), which
\* merges the result, removes the marker it parsed and goes on
Return(res) ==
    LET rest == SubSeq(stack, 1, Len(stack) - 1)
        c == rest[Len(rest)]
    IN  /\ results' = Append(results,
              [target_path |-> Top.target_path, rule_path |-> Top.rule_path,
               tags |-> Top.tags, depth |-> Len(stack), run |-> run,
               walk |-> idx, state |-> res.state, processed |-> res.processed,
               failed |-> res.failed])
        /\ IF rest = <<>>
           THEN /\ stack' = <<>>
                /\ state' = res.state
                /\ dpc' = "remove"
                /\ UNCHANGED markers
           ELSE /\ stack' = [rest EXCEPT ![Len(rest)] =
                      [c EXCEPT !.state = c.state /\ res.state,
                                !.processed_files = @ \o res.processed,
                                !.failed_files = @ \o res.failed,
                                !.pc = "loop", !.path = <<>>,
                                !.freezefile = <<>>]]
                /\ markers' = [markers EXCEPT ![c.path] = @ \ {c.freezefile}]
                /\ UNCHANGED <<state, dpc>>

\* lines 67-68: nothing is left on the stack of directories
ReturnWhenEmpty ==
    /\ stack # <<>>
    /\ Top.pc = "loop"
    /\ Top.directories = <<>>
    /\ Return([state |-> Top.state, processed |-> Top.processed_files,
               failed |-> Top.failed_files])
    /\ UNCHANGED <<records, tgt_folders, idx, freezefile, sent, calls, fails,
                   run, invocations, honored, popped, markers0, records0>>

\* lines 70-82: the directory popped is not the target and holds a marker
HonorNested ==
    /\ stack # <<>>
    /\ Top.pc = "loop"
    /\ Top.directories # <<>>
    /\ LET n == Len(Top.directories)
           path == Top.directories[n]
       IN  /\ path # Top.target_path
           /\ glob(path) # {}
           /\ \E f \in glob(path) :
                LET parsed_tag == parse_freezefile(f)
                    rule == NestedRulePath(path, Top.rule_path)
                    tags == NestedTags(parsed_tag, Top.tags)
                IN  /\ stack' = Append(
                          [stack EXCEPT ![Len(stack)] =
                              [Top EXCEPT !.directories = SubSeq(@, 1, n - 1),
                                          !.path = path, !.freezefile = f,
                                          !.pc = "call"]],
                          NewFrame(path, rule, tags))
                    /\ honored' = Append(honored,
                          [dir |-> path, name |-> f, tags |-> parsed_tag,
                           nested |-> TRUE, run |-> run, walk |-> idx])
                    /\ invocations' = Append(invocations,
                          [target_path |-> path, rule_path |-> rule,
                           tags |-> tags, depth |-> Len(stack) + 1,
                           run |-> run, walk |-> idx])
                    /\ popped' = Append(popped,
                          [path |-> path, target_path |-> Top.target_path,
                           rule_path |-> Top.rule_path, load |-> "nested",
                           run |-> run, walk |-> idx])
    /\ UNCHANGED <<markers, records, dpc, tgt_folders, idx, freezefile, state,
                   sent, calls, fails, run, results, markers0, records0>>

\* lines 70-96: the directory popped is processed by this activation; its
\* record is loaded, and a valid record of another rule ends the activation
LoadRecord ==
    /\ stack # <<>>
    /\ Top.pc = "loop"
    /\ Top.directories # <<>>
    /\ LET n == Len(Top.directories)
           path == Top.directories[n]
           content == records[path]
           invalid == content = NoFile \/ ~CONFIG_SCHEMA(content)
           this == [Top EXCEPT !.directories = SubSeq(@, 1, n - 1),
                               !.path = path]
       IN  /\ path = Top.target_path \/ glob(path) = {}
           /\ popped' = Append(popped,
                 [path |-> path, target_path |-> Top.target_path,
                  rule_path |-> Top.rule_path,
                  load |-> IF invalid THEN "invalid"
                           ELSE IF RuleConflict(content, Top.rule_path)
                           THEN "conflict" ELSE "valid",
                  run |-> run, walk |-> idx])
           /\ IF invalid
              THEN /\ stack' = [stack EXCEPT ![Len(stack)] =
                         [this EXCEPT
                            !.frozen = [BASE_CONFIG EXCEPT
                                          !.affected_files = JArr(<<>>)],
                            !.state = FALSE,
                            !.listing = listdir(path),
                            !.pc = "entries"]]
                   /\ UNCHANGED <<markers, state, dpc, results>>
              ELSE IF RuleConflict(content, Top.rule_path)
              THEN Return([state |-> TRUE, processed |-> <<>>, failed |-> <<>>])
              ELSE /\ stack' = [stack EXCEPT ![Len(stack)] =
                         [this EXCEPT !.frozen = content,
                                        !.listing = listdir(path),
                                        !.pc = "entries"]]
                   /\ UNCHANGED <<markers, state, dpc, results>>
    /\ UNCHANGED <<records, tgt_folders, idx, freezefile, sent, calls, fails,
                   run, invocations, honored, markers0, records0>>

\* lines 62, 106: the directories waiting on the work-stack of any activation
Pending ==
    UNION {{stack[k].directories[j] : j \in DOMAIN stack[k].directories} :
              k \in DOMAIN stack}

\* lines 98-134: one entry of the listing of the directory in hand
Entry ==
    /\ stack # <<>>
    /\ Top.pc = "entries"
    /\ Top.listing # <<>>
    /\ LET file == Head(Top.listing)
           file_abs_path == Join(Top.path, file)
           next == [Top EXCEPT !.listing = Tail(@)]
       IN  IF IsHidden(file)
           THEN /\ stack' = [stack EXCEPT ![Len(stack)] = next]
                /\ UNCHANGED <<calls, fails>>
           ELSE IF isdir(file_abs_path)
           THEN /\ stack' = [stack EXCEPT ![Len(stack)] =
                      [next EXCEPT !.directories = Append(@, file_abs_path)]]
                /\ UNCHANGED <<calls, fails>>
           ELSE IF AlreadyTagged(file, Top.tags, Top.frozen)
           THEN /\ stack' = [stack EXCEPT ![Len(stack)] = next]
                /\ UNCHANGED <<calls, fails>>
           ELSE \E ok \in BOOLEAN :
                /\ ok \/ fails < MaxFails
                /\ calls' = Append(calls,
                      [path |-> file_abs_path, key |-> file_s3_key(file_abs_path),
                       tags |-> Top.tags, ok |-> ok, dir |-> Top.path,
                       file |-> file, run |-> run, walk |-> idx,
                       pending |-> Pending])
                /\ fails' = IF ok THEN fails ELSE fails + 1
                /\ stack' = [stack EXCEPT ![Len(stack)] =
                      IF ok
                      THEN [next EXCEPT
                              !.processed_files = Append(@, file_abs_path),
                              !.frozen.affected_files.arr =
                                  IF using_tag(file, Top.tags) = Top.tags
                                  THEN Append(@, file) ELSE @]
                      ELSE [next EXCEPT
                              !.state = FALSE,
                              !.failed_files = Append(@, file_abs_path)]]
    /\ UNCHANGED <<markers, records, dpc, tgt_folders, idx, freezefile, state,
                   sent, run, invocations, results, honored, markers0, records0,
                   popped>>

\* lines 136-140: the record of the directory in hand is written
SaveRecord ==
    /\ stack # <<>>
    /\ Top.pc = "entries"
    /\ Top.listing = <<>>
    /\ records' = [records EXCEPT ![Top.path] =
                      SavedRecord(Top.frozen, Top.rule_path, Top.tags)]
    /\ stack' = [stack EXCEPT ![Len(stack)] =
                    [Top EXCEPT !.pc = "loop", !.path = <<>>,
                                !.frozen = BASE_CONFIG]]
    /\ UNCHANGED <<markers, dpc, tgt_folders, idx, freezefile, state, sent,
                   calls, fails, run, invocations, results, honored, markers0,
                   records0,
                   popped>>

(***************************************************************************)
(* __main__: the driver.                                                   *)
(***************************************************************************)
\* lines 145-152
Scan ==
    /\ dpc = "scan"
    /\ tgt_folders' = SelectFolders(tgt_folder_candidates(markers), <<>>)
    /\ idx' = 1
    /\ dpc' = "next"
    /\ UNCHANGED <<markers, records, stack, freezefile, state, sent, calls,
                   fails, run, invocations, results, honored, markers0, records0,
                   popped>>

\* lines 154-157: the first marker of the folder is parsed and apply_tag is
\* called; a folder without a marker ends the driver with an IndexError
StartFolder ==
    /\ dpc = "next"
    /\ idx <= Len(tgt_folders)
    /\ LET tgt_folder == tgt_folders[idx]
       IN  IF glob(tgt_folder) = {}
           THEN /\ dpc' = "crashed"
                /\ UNCHANGED <<stack, freezefile, invocations, honored>>
           ELSE \E f \in glob(tgt_folder) :
                LET tag == parse_freezefile(f)
                IN  /\ freezefile' = f
                    /\ stack' = <<NewFrame(tgt_folder, tgt_folder, tag)>>
                    /\ dpc' = "call"
                    /\ honored' = Append(honored,
                          [dir |-> tgt_folder, name |-> f, tags |-> tag,
                           nested |-> FALSE, run |-> run, walk |-> idx])
                    /\ invocations' = Append(invocations,
                          [target_path |-> tgt_folder, rule_path |-> tgt_folder,
                           tags |-> tag, depth |-> 1, run |-> run,
                           walk |-> idx])
    /\ UNCHANGED <<markers, records, tgt_folders, idx, state, sent, calls,
                   fails, run, results, markers0, records0,
                   popped>>

\* line 158
RemoveFreezefile ==
    /\ dpc = "remove"
    /\ markers' = [markers EXCEPT ![tgt_folders[idx]] = @ \ {freezefile}]
    /\ dpc' = "notify"
    /\ UNCHANGED <<records, stack, tgt_folders, idx, freezefile, state, sent,
                   calls, fails, run, invocations, results, honored, markers0,
                   records0,
                   popped>>

\* lines 159-162 with the result of apply_tag ignored
NotifyAlwaysSucceeded ==
    /\ dpc = "notify"
    /\ LET tgt_folder == tgt_folders[idx]
       IN  sent' = Append(sent,
              [path |-> IF Len(tgt_folder) <= 4000 THEN tgt_folder
                        ELSE SubSeq(tgt_folder, 1, 3997) \o <<".", ".", ".">>,
               verdict |-> "Succeeded",
               run |-> run])
    /\ idx' = idx + 1
    /\ dpc' = "next"
    /\ UNCHANGED <<markers, records, stack, tgt_folders, freezefile, state,
                   calls, fails, run, invocations, results, honored, markers0,
                   records0,
                   popped>>

\* lines 159-162: the message names the folder, cut to 4000 characters
Notify ==
    /\ dpc = "notify"
    /\ LET tgt_folder == tgt_folders[idx]
       IN  sent' = Append(sent,
              [path |-> IF Len(tgt_folder) <= 4000 THEN tgt_folder
                        ELSE SubSeq(tgt_folder, 1, 3997) \o <<".", ".", ".">>,
               verdict |-> IF state THEN "Succeeded" ELSE "Failed",
               run |-> run])
    /\ idx' = idx + 1
    /\ dpc' = "next"
    /\ UNCHANGED <<markers, records, stack, tgt_folders, freezefile, state,
                   calls, fails, run, invocations, results, honored, markers0,
                   records0,
                   popped>>

\* line 164
Exit ==
    /\ dpc = "next"
    /\ idx > Len(tgt_folders)
    /\ dpc' = "done"
    /\ UNCHANGED <<markers, records, stack, tgt_folders, idx, freezefile,
                   state, sent, calls, fails, run, invocations, results,
                   honored, markers0, records0,
                   popped>>

(***************************************************************************)
(* The states a run starts from: at most MaxMarkers markers, in places of  *)
(* MarkerPlaces, and at most MaxInitRecords directories of RecordDirs with *)
(* a record file, which either lacks a property or passes the schema.      *)
(***************************************************************************)
InitMarkers ==
    {[d \in Dirs |-> {f \in MarkerNames : <<d, f>> \in P}] :
        P \in {Q \in SUBSET MarkerPlaces : Cardinality(Q) <= MaxMarkers}}

InitRecords ==
    {r \in [Dirs -> {NoFile, CorruptRecord, ForeignRecord}] :
        /\ \A d \in Dirs \ RecordDirs : r[d] = NoFile
        /\ Cardinality({d \in Dirs : r[d] # NoFile}) <= MaxInitRecords}

Init ==
    /\ markers \in InitMarkers
    /\ records \in InitRecords
    /\ stack = <<>>
    /\ dpc = "scan"
    /\ tgt_folders = <<>>
    /\ idx = 1
    /\ freezefile = <<>>
    /\ state = TRUE
    /\ sent = <<>>
    /\ calls = <<>>
    /\ fails = 0
    /\ run = 1
    /\ invocations = <<>>
    /\ results = <<>>
    /\ honored = <<>>
    /\ popped = <<>>
    /\ markers0 = markers
    /\ records0 = records

Next ==
    \/ Scan
    \/ StartFolder
    \/ HonorNested
    \/ LoadRecord
    \/ Entry
    \/ SaveRecord
    \/ ReturnWhenEmpty
    \/ RemoveFreezefile
    \/ Notify
    \/ Exit

Spec == Init /\ [][Next]_vars

(***************************************************************************)
(* A second run of the program over the same tree: when the driver has     *)
(* exited, the markers of the first run are dropped in again and the       *)
(* driver is started anew.                                                 *)
(***************************************************************************)
Rerun ==
    /\ dpc = "done"
    /\ run < MaxRuns
    /\ markers' = [d \in Dirs |-> markers[d] \cup markers0[d]]
    /\ records0' = records
    /\ run' = run + 1
    /\ dpc' = "scan"
    /\ tgt_folders' = <<>>
    /\ idx' = 1
    /\ freezefile' = <<>>
    /\ state' = TRUE
    /\ UNCHANGED <<records, stack, sent, calls, fails, invocations, results,
                   honored, popped, markers0>>

NextRerun == Next \/ Rerun

SpecRerun == Init /\ [][NextRerun]_vars

(***************************************************************************)
(* One driver run over a tree whose top directory /m/a holds one marker    *)
(* and no record, so that the walk of /m/a meets the markers and records   *)
(* placed beneath it.  apply_tag is sequential code: while a statement of  *)
(* an activation is left to execute, one is executed.                      *)
(***************************************************************************)
InitWalk ==
    /\ Init
    /\ markers[DirA] = {MarkerCold}
    /\ markers[DirB] = {}
    /\ records[DirA] = NoFile
    /\ records[DirS] = NoFile

ApplyTagStep ==
    HonorNested \/ LoadRecord \/ Entry \/ SaveRecord \/ ReturnWhenEmpty

SpecWalk == InitWalk /\ [][Next]_vars /\ WF_vars(ApplyTagStep)

(***************************************************************************)
(* Repeated driver runs over a tree whose top directory /m/a holds both    *)
(* markers at the start of every run, so that every run makes two          *)
(* apply_tag calls on /m/a, one per marker, with different tags.           *)
(***************************************************************************)
InitLedger ==
    /\ Init
    /\ markers[DirA] = MarkerNames
    /\ markers[DirS] \in {{}, {MarkerHot}}
    /\ markers[DirD] = {}
    /\ markers[DirB] = {}
    /\ records[DirA] = NoFile
    /\ records[DirS] = NoFile
    /\ records[DirB] \in {NoFile, ForeignRecord}

SpecLedger == InitLedger /\ [][NextRerun]_vars

(***************************************************************************)
(* Notions the properties are stated in.  They are read off the tree, not  *)
(* computed the way the code computes them.                                *)
(***************************************************************************)
TreeParent ==
    [d \in Dirs \ {S3_MOUNT_PATH} |->
        CASE d = DirA -> S3_MOUNT_PATH
          [] d = DirS -> DirA
          [] d = DirD -> DirS
          [] d = DirH -> DirA
          [] d = DirB -> DirA]

RECURSIVE StrictAncestors(_)
StrictAncestors(d) ==
    IF d = S3_MOUNT_PATH THEN {}
    ELSE {TreeParent[d]} \cup StrictAncestors(TreeParent[d])

\* d lies strictly beneath D
Beneath(d, D) == D \in StrictAncestors(d)

Within(d, D) == d = D \/ Beneath(d, D)

\* the directories of D's subtree that no hidden directory leads to
VisibleWithin(D) == {d \in Dirs : Within(d, D) /\ ~Within(d, DirH)}

\* the files of a directory whose names do not begin with a dot
OrdinaryFiles(d) ==
    CASE d = DirA -> {<<"x">>, <<"y">>}
      [] d = DirS -> {<<"z">>}
      [] d = DirD -> {<<"w">>}
      [] d = DirB -> {<<"v">>}
      [] d = DirH -> {<<"q">>}
      [] OTHER -> {}

\* the tag set a marker stands for
DirectiveTags(name) ==
    IF name = MarkerCold THEN <<"t">> :> <<"c">>
    ELSE (<<"t">> :> <<"h">>) @@ (<<"u">> :> <<"1">>)

Range(seq) == {seq[i] : i \in DOMAIN seq}

Occurrences(seq, x) == Cardinality({k \in DOMAIN seq : seq[k] = x})

ValidRecord(content) == content # NoFile /\ CONFIG_SCHEMA(content)

\* every directory held at most one marker when the first run started
SingleMarkers == \A d \in Dirs : Cardinality(markers0[d]) <= 1

\* the top-level walk number w of the current run has returned
WalkReturned(w) == w < idx \/ (w = idx /\ dpc \in {"remove", "notify"})

(***************************************************************************)
(* C1.  Idempotence across runs: when apply_tag is called a second time    *)
(* with the target, rule path and tags of a call of the first run, on the  *)
(* tree the first run left (each directory with at most one marker, every  *)
(* call of the first run successful), the second call makes no             *)
(* put_object_tagging call.                                                *)
(***************************************************************************)
C1_SecondRunNoCalls ==
    (SingleMarkers /\ \A i \in DOMAIN calls : calls[i].run = 1 => calls[i].ok)
    => \A j \in DOMAIN invocations :
         LET second == invocations[j]
         IN  (/\ second.run = 2
              /\ second.depth = 1
              /\ \E i \in DOMAIN invocations :
                    /\ invocations[i].run = 1
                    /\ invocations[i].depth = 1
                    /\ invocations[i].target_path = second.target_path
                    /\ invocations[i].rule_path = second.rule_path
                    /\ invocations[i].tags = second.tags)
             => \A k \in DOMAIN calls :
                  ~(calls[k].run = 2 /\ calls[k].walk = second.walk)

(***************************************************************************)
(* C2.  Ownership exclusivity: when a walk started at a strict ancestor of *)
(* D pops D, and D held a valid record whose rule-at differs from the      *)
(* walk's rule path, the records of D and of every directory beneath D     *)
(* stay as they were and no file in or beneath D is tagged.                *)
(***************************************************************************)
OwnedByOther(p) ==
    /\ ValidRecord(records0[p.path])
    /\ ~EqStr(records0[p.path].rule_at, p.rule_path)
    /\ Beneath(p.path, tgt_folders[p.walk])

C2_OwnershipExclusive ==
    \A i \in DOMAIN popped :
        OwnedByOther(popped[i])
        => /\ \A d \in Dirs :
                Within(d, popped[i].path) => records[d] = records0[d]
           /\ \A j \in DOMAIN calls : ~Within(calls[j].dir, popped[i].path)

\* a walk has met a directory owned by another rule, and the driver is done
C2_Witness ==
    /\ dpc = "done"
    /\ \E i \in DOMAIN popped :
          /\ OwnedByOther(popped[i])
          /\ popped[i].load = "conflict"
          /\ calls # <<>>

(***************************************************************************)
(* C3.  Partial failure isolation: when a top-level apply_tag returns, for *)
(* any two files f and g of one directory D for which the walk's call      *)
(* failed (f) and succeeded (g), the record of D lists g and not f, and    *)
(* the path of f occurs exactly once in the failed list returned.          *)
(***************************************************************************)
C3_PartialFailure ==
    dpc = "remove"
    => \A i, j \in DOMAIN calls :
         LET f == calls[i]
             g == calls[j]
             record == records[f.dir]
         IN  (/\ f.run = run /\ f.walk = idx /\ ~f.ok
              /\ g.run = run /\ g.walk = idx /\ g.ok
              /\ f.dir = g.dir)
             => /\ record # NoFile
                /\ "affected_files" \in DOMAIN record
                /\ InList(g.file, record.affected_files)
                /\ ~InList(f.file, record.affected_files)
                /\ Occurrences(results[Len(results)].failed, f.path) = 1

(***************************************************************************)
(* C4.  Nested directive precedence: when a walk pops a directory D other  *)
(* than its target that holds a marker, (1) every call of that walk for a  *)
(* file in or beneath D carries the tags of D's marker, (2) no directory   *)
(* beneath D is popped by an activation whose target lies outside D, and   *)
(* (3) once the walk has returned the marker parsed is gone.               *)
(* C4_NestedTagsEverywhere states (1) for every file beneath D;            *)
(* C4_NestedPrecedence states (1) for the files that no deeper directory   *)
(* with a marker of its own, parsed in the same walk, contains.            *)
(***************************************************************************)
NestedHonored == {i \in DOMAIN honored : honored[i].nested}

\* a marker parsed deeper inside h's directory, in the same walk, covers dir
DeeperDirective(h, dir) ==
    \E k \in NestedHonored :
        /\ honored[k].run = h.run
        /\ honored[k].walk = h.walk
        /\ Beneath(honored[k].dir, h.dir)
        /\ Within(dir, honored[k].dir)

C4_ChildrenAndMarker ==
    \A i \in NestedHonored :
        LET h == honored[i]
        IN  /\ \A k \in DOMAIN popped :
                 (/\ popped[k].run = h.run
                  /\ popped[k].walk = h.walk
                  /\ \/ Beneath(popped[k].path, h.dir)
                     \/ popped[k].path = h.dir /\ popped[k].load # "nested")
                 => Within(popped[k].target_path, h.dir)
            /\ (h.run = run /\ WalkReturned(h.walk))
                 => h.name \notin markers[h.dir]

C4_NestedTagsEverywhere ==
    /\ C4_ChildrenAndMarker
    /\ \A i \in NestedHonored : \A j \in DOMAIN calls :
         (/\ calls[j].run = honored[i].run
          /\ calls[j].walk = honored[i].walk
          /\ Within(calls[j].dir, honored[i].dir))
         => calls[j].tags = DirectiveTags(honored[i].name)

C4_NestedPrecedence ==
    /\ C4_ChildrenAndMarker
    /\ \A i \in NestedHonored : \A j \in DOMAIN calls :
         (/\ calls[j].run = honored[i].run
          /\ calls[j].walk = honored[i].walk
          /\ Within(calls[j].dir, honored[i].dir)
          /\ ~DeeperDirective(honored[i], calls[j].dir))
         => calls[j].tags = DirectiveTags(honored[i].name)

\* a walk has parsed a nested marker, tagged a file beneath it with tags
\* that are not those of the enclosing walk, and has returned
C4_Witness ==
    /\ dpc = "done"
    /\ \E i \in NestedHonored : \E j \in DOMAIN calls : \E k \in DOMAIN honored :
          /\ calls[j].walk = honored[i].walk
          /\ Within(calls[j].dir, honored[i].dir)
          /\ ~DeeperDirective(honored[i], calls[j].dir)
          /\ ~honored[k].nested
          /\ honored[k].walk = honored[i].walk
          /\ honored[k].tags # honored[i].tags

(***************************************************************************)
(* C5.  State corruption handling: when a top-level apply_tag returns and  *)
(* its walk has processed a directory D whose record was absent or did not *)
(* pass the schema, a call was made for every ordinary file of D and the   *)
(* state returned is false; the driver has not ended with an exception.    *)
(***************************************************************************)
C5_InvalidRecordFailsRun ==
    /\ dpc # "crashed"
    /\ dpc = "remove"
       => \A i \in DOMAIN popped :
            (/\ popped[i].run = run
             /\ popped[i].walk = idx
             /\ popped[i].load = "invalid")
            => /\ state = FALSE
               /\ \A file \in OrdinaryFiles(popped[i].path) :
                    \E j \in DOMAIN calls :
                        /\ calls[j].run = run
                        /\ calls[j].walk = idx
                        /\ calls[j].dir = popped[i].path
                        /\ calls[j].file = file

(***************************************************************************)
(* C6.  Re-run result: after a first run in which every call succeeded     *)
(* (each directory with at most one marker), a second run with the same    *)
(* markers dropped in again leaves every record as the first run left it   *)
(* and reports Succeeded for every folder.                                 *)
(***************************************************************************)
C6_RerunSucceeded ==
    (/\ run = 2
     /\ dpc = "done"
     /\ SingleMarkers
     /\ \A i \in DOMAIN calls : calls[i].run = 1 => calls[i].ok)
    => /\ records = records0
       /\ \A k \in DOMAIN sent :
            sent[k].run = 2 => sent[k].verdict = "Succeeded"

(***************************************************************************)
(* C7.  First-run effect: when the driver is done, for a target folder R   *)
(* that held one marker, with no record in its subtree, no marker beneath  *)
(* it and no failed call in it: every ordinary file of the visible         *)
(* subtree got exactly one call, with the tags of the marker; the marker   *)
(* is gone; every visible directory of the subtree has a record whose      *)
(* rule-at is R and whose applied-tags are the tags of the marker.         *)
(***************************************************************************)
FreshRoot(R) ==
    /\ R \in Range(tgt_folders)
    /\ Cardinality(markers0[R]) = 1
    /\ \A d \in Dirs : Within(d, R) => records0[d] = NoFile
    /\ \A d \in Dirs : Beneath(d, R) => markers0[d] = {}
    /\ \A j \in DOMAIN calls : Within(calls[j].dir, R) => calls[j].ok

C7_FirstRun ==
    dpc = "done"
    => \A R \in Dirs :
         FreshRoot(R)
         => LET tags == DirectiveTags(CHOOSE f \in markers0[R] : TRUE)
            IN  /\ markers[R] = {}
                /\ \A d \in VisibleWithin(R) :
                     /\ records[d] # NoFile
                     /\ records[d].rule_at = JStr(R)
                     /\ records[d].applied_tags = JObj(tags)
                     /\ \A file \in OrdinaryFiles(d) :
                          /\ Cardinality({j \in DOMAIN calls :
                                calls[j].path = Join(d, file)}) = 1
                          /\ \A j \in DOMAIN calls :
                                calls[j].path = Join(d, file)
                                => calls[j].tags = tags

\* the driver is done with a fresh folder that has a subdirectory
C7_Witness ==
    /\ dpc = "done"
    /\ \E R \in Dirs :
          /\ FreshRoot(R)
          /\ Cardinality(VisibleWithin(R)) > 1
          /\ \E j \in DOMAIN calls : Beneath(calls[j].dir, R)

(***************************************************************************)
(* C8.  Nested rule scope: the apply_tag call made for a nested marker in  *)
(* D has D as its rule path, and when the walk has returned, a record that *)
(* the call wrote for D has D as its rule-at.                              *)
(***************************************************************************)
C8_NestedRuleScope ==
    /\ \A i \in DOMAIN invocations :
          invocations[i].depth > 1
          => invocations[i].rule_path = invocations[i].target_path
    /\ \A i \in NestedHonored :
          (/\ honored[i].run = run
           /\ WalkReturned(honored[i].walk)
           /\ records[honored[i].dir] # records0[honored[i].dir])
          => records[honored[i].dir].rule_at = JStr(honored[i].dir)

(***************************************************************************)
(* C9.  Root selection: after the scan, every directory that held a marker *)
(* and has no strict ancestor holding one is a target folder, and no       *)
(* target folder lies strictly beneath another target folder.              *)
(***************************************************************************)
C9_RootSelection ==
    (dpc # "scan" /\ run = 1)
    => /\ \A d \in Dirs :
            (/\ markers0[d] # {}
             /\ \A a \in StrictAncestors(d) : markers0[a] = {})
            => d \in Range(tgt_folders)
       /\ \A i, j \in DOMAIN tgt_folders :
            ~Beneath(tgt_folders[i], tgt_folders[j])

\* the scan found a marker in two folders neither of which is beneath the
\* other, and a marker deeper down that was left to a walk
C9_Witness ==
    /\ dpc = "next"
    /\ DirS \in Range(tgt_folders)
    /\ DirB \in Range(tgt_folders)
    /\ markers0[DirD] # {}
    /\ DirD \notin Range(tgt_folders)

(***************************************************************************)
(* C10.  Several markers in one directory: when the driver is done, a      *)
(* directory that held two or more markers has been the target of at most  *)
(* one apply_tag call, and if it was a target, all but one of its markers  *)
(* are still there.                                                        *)
(***************************************************************************)
TargetedCount(d) ==
    Cardinality({i \in DOMAIN invocations :
                    invocations[i].run = run /\ invocations[i].target_path = d})

C10_OneMarkerPerPass ==
    (dpc = "done" /\ run = 1)
    => \A d \in Dirs :
         Cardinality(markers0[d]) >= 2
         => /\ TargetedCount(d) <= 1
            /\ TargetedCount(d) = 1
                 => Cardinality(markers[d]) = Cardinality(markers0[d]) - 1

(***************************************************************************)
(* C11.  Deferred directives are reached: when the driver is done (each    *)
(* directory with at most one marker), a marker that lay in a visible      *)
(* directory strictly beneath a target folder, with no schema-valid record *)
(* of another rule in that directory or above it, has been parsed by a     *)
(* walk, an apply_tag call was made on its directory with its tags, and    *)
(* the marker is gone.                                                     *)
(***************************************************************************)
\* a valid record at d or above d, up to the target folder R, hides d
Shadowed(d, R) ==
    \E a \in Dirs :
        Within(d, a) /\ Within(a, R) /\ ValidRecord(records0[a])

C11_DeferredReached ==
    (dpc = "done" /\ run = 1 /\ SingleMarkers)
    => \A R \in Range(tgt_folders) : \A d \in VisibleWithin(R) :
         (Beneath(d, R) /\ markers0[d] # {} /\ ~Shadowed(d, R))
         => /\ markers[d] = {}
            /\ \E i \in NestedHonored :
                  /\ honored[i].dir = d
                  /\ honored[i].name \in markers0[d]
            /\ \E i \in DOMAIN invocations :
                  /\ invocations[i].target_path = d
                  /\ invocations[i].depth > 1
                  /\ invocations[i].tags =
                        DirectiveTags(CHOOSE f \in markers0[d] : TRUE)

(***************************************************************************)
(* C12.  Reporting: the k-th message is about the k-th target folder; it   *)
(* is sent after the one apply_tag call on that folder has returned and    *)
(* the marker parsed for it is deleted, it names the folder and it says    *)
(* Succeeded exactly when that call returned True; a walk is in progress   *)
(* only when every earlier target folder has its message, and a finished   *)
(* driver has sent one message per target folder.                          *)
(***************************************************************************)
TopResults(k) == {i \in DOMAIN results : results[i].walk = k /\ results[i].depth = 1}

C12_OneReportPerRoot ==
    /\ dpc # "scan" => Len(sent) = idx - 1
    /\ dpc = "done" => Len(sent) = Len(tgt_folders)
    /\ stack # <<>> => dpc = "call"
    /\ \A k \in DOMAIN sent :
          /\ sent[k].path = tgt_folders[k]
          /\ Cardinality(TopResults(k)) = 1
          /\ \A i \in TopResults(k) :
                /\ results[i].target_path = tgt_folders[k]
                /\ (sent[k].verdict = "Succeeded") <=> results[i].state
                /\ (sent[k].verdict = "Failed") <=> ~results[i].state
          /\ \A i \in DOMAIN honored :
                (honored[i].walk = k /\ ~honored[i].nested)
                => honored[i].name \notin markers[tgt_folders[k]]

\* two different target folders were reported, one as Succeeded, one as Failed
C12_Witness ==
    /\ dpc = "done"
    /\ Len(sent) = 2
    /\ sent[1].path # sent[2].path
    /\ sent[1].verdict = "Failed"
    /\ sent[2].verdict = "Succeeded"

(***************************************************************************)
(* C13.  A rule conflict is local to its branch: when the apply_tag call   *)
(* on a target folder has returned, every visible subdirectory of a        *)
(* directory that this walk listed has itself been popped by this walk,    *)
(* conflict or not; only the subtree of a conflicting directory is left    *)
(* out, because that directory is never listed.                            *)
(***************************************************************************)
\* the directories whose entries walk w went through
ListedBy(w) ==
    {popped[i].path : i \in {j \in DOMAIN popped :
        /\ popped[j].walk = w /\ popped[j].run = run
        /\ popped[j].load \in {"invalid", "valid"}}}

PoppedBy(w) ==
    {popped[i].path : i \in {j \in DOMAIN popped :
        popped[j].walk = w /\ popped[j].run = run}}

C13_ConflictIsLocal ==
    (dpc = "remove" /\ \E i \in DOMAIN popped :
                          popped[i].walk = idx /\ popped[i].load = "conflict")
    => \A p \in ListedBy(idx) : \A d \in Dirs \ {S3_MOUNT_PATH, DirH} :
         TreeParent[d] = p => d \in PoppedBy(idx)

(***************************************************************************)
(* C14.  Faithful aggregation: when the apply_tag call on a target folder  *)
(* has returned, the failed list it returned holds the path of every file  *)
(* whose tagging call failed during that call, nested calls included, the  *)
(* processed list holds the path of every file whose call succeeded, and   *)
(* the state returned is False if a call failed or a directory popped had  *)
(* a missing or invalid record.                                            *)
(***************************************************************************)
CallsOf(w) == {i \in DOMAIN calls : calls[i].walk = w /\ calls[i].run = run}

C14_FaithfulAggregation ==
    dpc = "remove"
    => \A r \in TopResults(idx) :
         /\ \A i \in CallsOf(idx) :
               /\ ~calls[i].ok => calls[i].path \in Range(results[r].failed)
               /\ calls[i].ok => calls[i].path \in Range(results[r].processed)
         /\ (\E i \in CallsOf(idx) : ~calls[i].ok) => ~results[r].state
         /\ (\E i \in DOMAIN popped :
                /\ popped[i].walk = idx /\ popped[i].run = run
                /\ popped[i].load = "invalid") => ~results[r].state

(***************************************************************************)
(* C15.  A tagging failure never aborts the walk: when the apply_tag call  *)
(* on a target folder has returned, then for every tagging call of that    *)
(* walk that failed, every other file of the same directory was attempted  *)
(* too, the record of the directory was written, and every directory that  *)
(* was waiting on a work-stack at the time of the failure has been popped. *)
(***************************************************************************)
C15_FailureDoesNotAbort ==
    dpc = "remove"
    => \A i \in CallsOf(idx) :
         ~calls[i].ok
         => /\ \A f \in OrdinaryFiles(calls[i].dir) :
                  \E j \in CallsOf(idx) :
                     calls[j].dir = calls[i].dir /\ calls[j].file = f
            /\ records[calls[i].dir] # records0[calls[i].dir]
            /\ \A d \in calls[i].pending : d \in PoppedBy(idx)

(***************************************************************************)
(* C16.  Ledger invariant: whenever no apply_tag call is in progress, in   *)
(* every directory whose record was written by apply_tag, each name in     *)
(* affected-files is an ordinary file of that directory, occurs there      *)
(* once, and the latest tagging call for that file succeeded and carried   *)
(* the applied-tags of the record.                                         *)
(***************************************************************************)
\* line 137 writes rule-at as a string; the records a run starts from hold
\* an object there
WrittenByApplyTag(d) ==
    records[d] # NoFile /\ records[d].rule_at.type = "string"

CallsFor(d, f) == {i \in DOMAIN calls : calls[i].dir = d /\ calls[i].file = f}

LatestCall(d, f) ==
    CHOOSE i \in CallsFor(d, f) : \A j \in CallsFor(d, f) : j <= i

C16_Ledger ==
    stack = <<>>
    => \A d \in Dirs :
         WrittenByApplyTag(d)
         => \A f \in Range(records[d].affected_files.arr) :
              /\ f \in OrdinaryFiles(d)
              /\ Occurrences(records[d].affected_files.arr, f) = 1
              /\ CallsFor(d, f) # {}
              /\ calls[LatestCall(d, f)].ok
              /\ calls[LatestCall(d, f)].tags = records[d].applied_tags.obj

\* after two runs with different tag sets, a record lists one file of a
\* directory whose other file failed in the latest pass
C16_Witness ==
    /\ dpc = "done" /\ run = 2
    /\ WrittenByApplyTag(DirA)
    /\ records[DirA].affected_files.arr = <<<<"x">>>>
    /\ \E i \in CallsFor(DirA, <<"y">>) : ~calls[i].ok /\ calls[i].run = 2
    /\ \E i \in CallsFor(DirA, <<"x">>) :
          calls[i].run = 1 /\ calls[i].tags # records[DirA].applied_tags.obj

(***************************************************************************)
(* C17.  Record round trip: a record that apply_tag has written passes     *)
(* CONFIG_SCHEMA, and a later pop of the same directory, which loads that  *)
(* record, does not find it invalid.                                       *)
(***************************************************************************)
C17_RoundTrip ==
    /\ \A d \in Dirs :
          (records[d] # records0[d] /\ records[d] # NoFile)
          => CONFIG_SCHEMA(records[d])
    /\ \A i, j \in DOMAIN popped :
          (/\ i < j
           /\ popped[i].path = popped[j].path
           /\ popped[i].load \in {"invalid", "valid"}
           /\ popped[j].load # "nested")
          => popped[j].load # "invalid"

(***************************************************************************)
(* C18.  Hidden entries are never touched: no tagging call is made for an  *)
(* entry whose name begins with a dot; no such name is in an affected-     *)
(* files list being built or written by apply_tag, and no path with such a *)
(* name is in a processed or failed list, gathered or returned; no         *)
(* directory whose name begins with a dot is pushed on a work-stack, so    *)
(* none but the target of a call is on a work-stack or is popped.          *)
(***************************************************************************)
\* the last component of a path
BaseName(p) ==
    LET parts == Split(p, "/") IN parts[Len(parts)]

DotName(name) == name # <<>> /\ name[1] = "."

C18_HiddenUntouched ==
    /\ \A i \in DOMAIN calls :
          ~DotName(calls[i].file) /\ ~DotName(BaseName(calls[i].path))
    /\ \A k \in DOMAIN stack :
          /\ \A p \in Range(stack[k].processed_files) \cup
                       Range(stack[k].failed_files) : ~DotName(BaseName(p))
          /\ \A f \in Range(stack[k].frozen.affected_files.arr) : ~DotName(f)
          /\ \A d \in Range(stack[k].directories) \ {stack[k].target_path} :
                ~DotName(BaseName(d))
    /\ \A i \in DOMAIN results :
          \A p \in Range(results[i].processed) \cup Range(results[i].failed) :
             ~DotName(BaseName(p))
    /\ \A d \in Dirs :
          (records[d] # NoFile /\ records[d] # records0[d])
          => \A f \in Range(records[d].affected_files.arr) : ~DotName(f)
    /\ \A i \in DOMAIN popped :
          popped[i].path # popped[i].target_path
          => ~DotName(BaseName(popped[i].path))

\* a walk has gone through the whole listing of /m/a, which holds the hidden
\* file .k, the hidden directory .h, a marker and, by then, a record
C18_Witness ==
    /\ dpc = "done"
    /\ \E i \in DOMAIN popped :
          popped[i].path = DirA /\ popped[i].load = "invalid"
    /\ markers0[DirA] # {}
    /\ \E i \in DOMAIN calls : calls[i].dir = DirA /\ calls[i].ok
    /\ \E i \in DOMAIN calls : calls[i].dir = DirA /\ ~calls[i].ok

(***************************************************************************)
(* C19, as stated.  Single visit: during the apply_tag call on one target  *)
(* folder, nested calls included, each directory is popped from a work-    *)
(* stack at most once, and each file receives at most one tagging call.    *)
(***************************************************************************)
Pops(w, d) ==
    {i \in DOMAIN popped : popped[i].walk = w /\ popped[i].path = d}

C19_PoppedOnce ==
    /\ \A w \in DOMAIN tgt_folders : \A d \in Dirs :
          Cardinality(Pops(w, d)) <= 1
    /\ \A i, j \in DOMAIN calls :
          (calls[i].walk = calls[j].walk /\ calls[i].path = calls[j].path)
          => i = j

(***************************************************************************)
(* C19, amended.  Every apply_tag call on a target folder returns; during  *)
(* it, nested calls included, each directory is popped at most once by any *)
(* one activation and is processed (record loaded, entries listed, record  *)
(* written) by at most one activation, once; a directory popped twice is   *)
(* one whose marker the enclosing activation honored, popped then as the   *)
(* target of the nested call; each file receives at most one tagging call. *)
(***************************************************************************)
C19_ProcessedOnce ==
    /\ \A w \in DOMAIN tgt_folders : \A d \in Dirs :
          /\ Cardinality({i \in Pops(w, d) : popped[i].load # "nested"}) <= 1
          /\ Cardinality({i \in Pops(w, d) : popped[i].load = "nested"}) <= 1
          /\ \A i, j \in Pops(w, d) :
                popped[i].target_path = popped[j].target_path => i = j
    /\ \A i, j \in DOMAIN calls :
          (calls[i].walk = calls[j].walk /\ calls[i].path = calls[j].path)
          => i = j

C19_TerminatesProcessedOnce ==
    /\ []C19_ProcessedOnce
    /\ (dpc = "call") ~> (dpc = "remove")

\* a walk is over in which a directory was popped twice: by the enclosing
\* activation, which honored its marker, and by the nested call, which
\* processed it and tagged its file
C19_Witness ==
    /\ dpc = "remove"
    /\ Cardinality(Pops(idx, DirS)) = 2
    /\ \E i \in DOMAIN calls :
          calls[i].walk = idx /\ calls[i].dir = DirS /\ calls[i].file = <<"z">>
    /\ \E i \in DOMAIN calls : calls[i].walk = idx /\ calls[i].dir = DirD

====
